---- MODULE Spec2Model ----
(***************************************************************************)
(* Car Modification Studio: the pricing engine (calculate_totals) and the  *)
(* modification risk calculator (ModificationRiskCalculator) of the        *)
(* console front-end (car_only_console.py) and the web front-end           *)
(* (streamlit_app.py).                                                     *)
(*                                                                         *)
(* Money is kept exact: an amount of x currency units is the integer       *)
(* x * Unit, so that a percentage of a whole-unit price and 18% GST of it  *)
(* are integers.  Risk sub-scores and weights are kept in tenths.          *)
(***************************************************************************)
EXTENDS Integers, Sequences, FiniteSets

VARIABLES
    now,            \* datetime.now(): [year, month]
    customers,      \* table customers: email -> total_visits
    customer_email, \* the customer the front-end passes to calculate_totals
    selected_mods,  \* the modifications selected for the build, in order
    selected_color, \* the colour selected for the build, or NoColor
    totals,         \* what calculate_totals returned for the build, or NoCall
    car,            \* rows of table cars of the customer: {} or one row
    mod_data,       \* the modification whose risk is analysed
    risk,           \* the last risk computation (front-end, outcome), or NoCall
    interp,         \* a risk score and what get_risk_interpretation made of it
    reco,           \* a request for recommendations and what it returned
    features,       \* a customer's spending features and their classification
    accounts,       \* table customers: email -> total_spent, loyalty_points
    bills,          \* table bills, in the order of the inserts
    checkouts,      \* the checkouts under way: process -> its place and locals
    session         \* st.session_state of a web session

vars == <<now, customers, customer_email, selected_mods, selected_color, totals,
          car, mod_data, risk, interp, reco, features, accounts, bills,
          checkouts, session>>

----------------------------------------------------------------------------
(* Bounds of the model *)

\* longest cart handed to calculate_totals
MaxMods == 5
\* the year the clock starts in
BaseYear == 2026

----------------------------------------------------------------------------
(* Values *)

\* one currency unit, in the ten-thousandths the amounts are kept in
Unit == 100 * 100

\* rows of table modifications, as the cart holds them (mod_id, price, category).
\* The column is price REAL NOT NULL with no range check and calculate_totals
\* validates nothing, so a row of negative price is among them.
Modifications ==
    { [mod_id |-> 1, price |-> 1000,  category |-> "Technology"],
      [mod_id |-> 2, price |-> 2000,  category |-> "Performance"],
      [mod_id |-> 3, price |-> -1000, category |-> "Aesthetic"] }

\* the colour argument: None, or a row of category Color
NoColor == [is_none |-> TRUE, price |-> 0]
Colors == { NoColor, [is_none |-> FALSE, price |-> 3000] }

\* customer_email: None or "" (both falsy), a registered and an unregistered email
NoEmail == ""
Registered == { "asha@example.com" }
Emails == { NoEmail, "ghost@example.com" } \cup Registered

\* total_visits values a customer row can hold
VisitCounts == { 0, 1, 2, 5, 6, 10 }

Months == 1..12

Min(a, b) == IF a <= b THEN a ELSE b
Max(a, b) == IF a >= b THEN a ELSE b

----------------------------------------------------------------------------
(* calculate_totals *)

GST_RATE == 18    \* per cent

\* a subtotal that keeps the last price only (= for +=)
SumPricesLast(mods) ==
    IF mods = <<>> THEN 0 ELSE mods[Len(mods)].price * Unit

\* for mod in mods: subtotal += mod['price']
RECURSIVE SumPrices(_)
SumPrices(mods) ==
    IF mods = <<>> THEN 0
    ELSE SumPrices(SubSeq(mods, 1, Len(mods) - 1)) + mods[Len(mods)].price * Unit

\* subtotal of the modifications plus the colour, if any
RawSubtotal(mods, color) ==
    IF color.is_none THEN SumPrices(mods) ELSE SumPrices(mods) + color.price * Unit

\* a volume discount whose tiers start one item late (> for >=)
VolumeDiscountStrict(mods) ==
    IF Len(mods) > 5 THEN 15
    ELSE IF Len(mods) > 3 THEN 10
    ELSE 0

\* Volume discount
VolumeDiscount(mods) ==
    IF Len(mods) >= 5 THEN 15
    ELSE IF Len(mods) >= 3 THEN 10
    ELSE 0

\* SELECT total_visits ... WHERE email = ? ; fetchone(): {} is None
FetchCustomer(db, email) ==
    IF email \in DOMAIN db THEN { db[email] } ELSE {}

\* a loyalty discount whose tiers start one visit early (>= for >)
LoyaltyDiscountEarly(db, email) ==
    IF email # NoEmail
    THEN LET customer == FetchCustomer(db, email)
         IN  IF customer # {}
             THEN LET total_visits == CHOOSE v \in customer : TRUE
                  IN  IF total_visits >= 5 THEN 10
                      ELSE IF total_visits >= 1 THEN 5
                      ELSE 0
             ELSE 0
    ELSE 0

\* Loyalty discount
LoyaltyDiscount(db, email) ==
    IF email # NoEmail
    THEN LET customer == FetchCustomer(db, email)
         IN  IF customer # {}
             THEN LET total_visits == CHOOSE v \in customer : TRUE
                  IN  IF total_visits > 5 THEN 10
                      ELSE IF total_visits > 1 THEN 5
                      ELSE 0
             ELSE 0
    ELSE 0

festival_months == { 1, 10, 12 }

\* a festival discount that takes November for December
FestivalDiscountNovember(current_month) ==
    IF current_month \in { 1, 10, 11 } THEN 5 ELSE 0

\* Festival discount
FestivalDiscount(current_month) ==
    IF current_month \in festival_months THEN 5 ELSE 0

\* a discount percentage that takes the festival discount off (-= for +=)
DiscountPercentMinusFestival(mods, db, email, current_month) ==
    Min(VolumeDiscount(mods) + LoyaltyDiscount(db, email)
            - FestivalDiscount(current_month), 30)

\* the three discounts added up; discount_percent = min(discount_percent, 30)
DiscountPercent(mods, db, email, current_month) ==
    Min(VolumeDiscount(mods) + LoyaltyDiscount(db, email)
            + FestivalDiscount(current_month), 30)

\* x * (pct / 100), exact: every amount it is applied to is a multiple of 100
PercentOf(x, pct) == (x \div 100) * pct

\* a total that takes the GST off
TotalMinusGst(subtotal, gst) == subtotal - gst

\* total = subtotal + gst
Total(subtotal, gst) == subtotal + gst

\* a reported subtotal that forgets to add the discount back
ReportedSubtotalAfterDiscount(subtotal, discount_amount) == subtotal

\* 'subtotal': subtotal + discount_amount
ReportedSubtotal(subtotal, discount_amount) == subtotal + discount_amount

\* the dictionary calculate_totals returns
calculate_totals(mods, color, email, db, current_month) ==
    LET subtotal0        == RawSubtotal(mods, color)
        discount_percent == DiscountPercent(mods, db, email, current_month)
        discount_amount  == IF discount_percent > 0
                            THEN PercentOf(subtotal0, discount_percent) ELSE 0
        subtotal         == IF discount_percent > 0
                            THEN subtotal0 - discount_amount ELSE subtotal0
        gst              == PercentOf(subtotal, GST_RATE)
        total            == Total(subtotal, gst)
    IN  [ subtotal                |-> ReportedSubtotal(subtotal, discount_amount),
          discount_percent        |-> discount_percent,
          discount_amount         |-> discount_amount,
          subtotal_after_discount |-> subtotal,
          gst                     |-> gst,
          total                   |-> total ]

----------------------------------------------------------------------------
(* ModificationRiskCalculator.  Sub-scores (0-5) and weights are in tenths, *)
(* their products in hundredths.                                            *)

Categories == { "Performance", "Technology", "Safety", "Comfort", "Aesthetic", "Color" }

\* a category string that no table of the calculator maps
Unmapped == "Wheels"

RISK_FACTORS ==
    [ warranty_void           |-> 30,
      insurance_impact        |-> 25,
      installation_complexity |-> 20,
      maintenance_cost        |-> 15,
      resale_impact           |-> 10,
      legal_compliance        |-> 30 ]

\* car_make values; the ones that contain a premium brand, ignoring case
Makes == { "", "Toyota", "BMW", "audi a4" }
PremiumMakes == { "BMW", "audi a4" }

\* any(brand.lower() in str(car_make).lower() for brand in premium_brands)
is_premium(car_make) == car_make \in PremiumMakes

\* car_year is the raw year here, as the caller passes it
_calculate_warranty_risk(mod_category, car_year) ==
    CASE mod_category = "Performance" -> IF car_year < 3 THEN 45 ELSE 30
      [] mod_category = "Technology"  -> 20
      [] mod_category = "Safety"      -> 10
      [] mod_category = "Comfort"     -> 15
      [] mod_category = "Aesthetic"   -> 5
      [] mod_category = "Color"       -> 1
      [] OTHER                        -> 20

\* the price tiers entered at the limit instead of above it
_calculate_insurance_risk_ge(mod_category, price) ==
    LET base == IF price >= 50000 THEN 40
                ELSE IF price >= 20000 THEN 30
                ELSE IF price >= 5000 THEN 20
                ELSE 10
        adjusted == IF mod_category = "Performance" THEN base + 10
                    ELSE IF mod_category = "Safety" THEN base - 5
                    ELSE base
    IN  Min(Max(adjusted, 0), 50)

_calculate_insurance_risk(mod_category, price) ==
    LET base == IF price > 50000 THEN 40
                ELSE IF price > 20000 THEN 30
                ELSE IF price > 5000 THEN 20
                ELSE 10
        adjusted == IF mod_category = "Performance" THEN base + 10
                    ELSE IF mod_category = "Safety" THEN base - 5
                    ELSE base
    IN  Min(Max(adjusted, 0), 50)

_calculate_complexity_risk(mod_category) ==
    CASE mod_category = "Performance" -> 40
      [] mod_category = "Technology"  -> 35
      [] mod_category = "Safety"      -> 30
      [] mod_category = "Comfort"     -> 25
      [] mod_category = "Aesthetic"   -> 20
      [] mod_category = "Color"       -> 15
      [] OTHER                        -> 25

_calculate_maintenance_risk(mod_category) ==
    CASE mod_category = "Performance" -> 35
      [] mod_category = "Technology"  -> 30
      [] mod_category = "Safety"      -> 20
      [] mod_category = "Comfort"     -> 25
      [] mod_category = "Aesthetic"   -> 15
      [] mod_category = "Color"       -> 10
      [] OTHER                        -> 20

_calculate_resale_risk(mod_category, car_make) ==
    CASE mod_category = "Performance" -> IF is_premium(car_make) THEN 25 ELSE 35
      [] mod_category = "Technology"  -> 20
      [] mod_category = "Safety"      -> 10
      [] mod_category = "Comfort"     -> 15
      [] mod_category = "Aesthetic"   -> IF is_premium(car_make) THEN 30 ELSE 20
      [] mod_category = "Color"       -> 40
      [] OTHER                        -> 25

\* a legal table whose Color entry is 4.0 for 3.0
_calculate_legal_risk_color4(mod_category, car_year) ==
    CASE mod_category = "Performance" -> IF car_year < 10 THEN 35 ELSE 40
      [] mod_category = "Technology"  -> 10
      [] mod_category = "Safety"      -> 5
      [] mod_category = "Comfort"     -> 10
      [] mod_category = "Aesthetic"   -> 20
      [] mod_category = "Color"       -> 40
      [] OTHER                        -> 20

\* car_year is the raw year here too
_calculate_legal_risk(mod_category, car_year) ==
    CASE mod_category = "Performance" -> IF car_year < 10 THEN 35 ELSE 40
      [] mod_category = "Technology"  -> 10
      [] mod_category = "Safety"      -> 5
      [] mod_category = "Comfort"     -> 10
      [] mod_category = "Aesthetic"   -> 20
      [] mod_category = "Color"       -> 30
      [] OTHER                        -> 20

\* sum(RISK_FACTORS.values()), in tenths
total_weight ==
    RISK_FACTORS.warranty_void + RISK_FACTORS.insurance_impact
        + RISK_FACTORS.installation_complexity + RISK_FACTORS.maintenance_cost
        + RISK_FACTORS.resale_impact + RISK_FACTORS.legal_compliance

\* round(num / den, 1) in tenths, for num / den in units.  No score is half-way
\* between two tenths (20 * sum / 1300 = sum / 65 is never k + 1/2), so
\* Python's round-half-even and its binary fractions never decide.
RoundTenths(num, den) == (20 * num + den) \div (2 * den)

\* sum(risk_scores), in hundredths
RiskSum(category, price, car_year, car_make) ==
    _calculate_warranty_risk(category, car_year) * RISK_FACTORS.warranty_void
        + _calculate_insurance_risk(category, price) * RISK_FACTORS.insurance_impact
        + _calculate_complexity_risk(category) * RISK_FACTORS.installation_complexity
        + _calculate_maintenance_risk(category) * RISK_FACTORS.maintenance_cost
        + _calculate_resale_risk(category, car_make) * RISK_FACTORS.resale_impact
        + _calculate_legal_risk(category, car_year) * RISK_FACTORS.legal_compliance

\* weighted_risk * 2 as the fraction num / den: sum / 100 / (total_weight / 10) * 2
\* normalized_risk = min(max(weighted_risk * 2, 1), 10); round(normalized_risk, 1)
RiskScore(category, price, car_year, car_make) ==
    LET num == 2 * RiskSum(category, price, car_year, car_make)
        den == 10 * total_weight
    IN  RoundTenths(Min(Max(num, 1 * den), 10 * den), den)

\* what a call does: it returns a score (in tenths) or raises
Returned(score) == [raised |-> "", score |-> score]
Raised(exception) == [raised |-> exception, score |-> 0]

\* car_data as the call sites build it: a dict, empty without a car, or the
\* sqlite3.Row itself
EmptyDict == [type |-> "dict", has_keys |-> FALSE, car_year |-> {}, car_make |-> ""]
DictOf(row) == [type |-> "dict", has_keys |-> TRUE,
                car_year |-> row.car_year, car_make |-> row.car_make]
RowOf(row) == [type |-> "Row", has_keys |-> TRUE,
               car_year |-> row.car_year, car_make |-> row.car_make]

\* risk_analysis (console): car_info = {} or a dict of the row's columns
console_car_info(rows) ==
    IF rows = {} THEN EmptyDict ELSE DictOf(CHOOSE row \in rows : TRUE)

\* ai_recommendations_page, risk_analysis_page (web): car_data = fetchone() or {}
web_car_data(rows) ==
    IF rows = {} THEN EmptyDict ELSE RowOf(CHOOSE row \in rows : TRUE)

\* the car_year argument of the console calculator: {} is None
console_car_year(car_data, year_now) ==
    IF car_data.type = "dict"
    THEN IF car_data.has_keys THEN car_data.car_year ELSE { year_now }
    ELSE IF car_data.car_year # {} /\ car_data.car_year # {0}
         THEN car_data.car_year ELSE { year_now }

\* the car_make argument of the console calculator
console_car_make(car_data) ==
    IF car_data.type = "dict"
    THEN IF car_data.has_keys THEN car_data.car_make ELSE ""
    ELSE car_data.car_make

\* calculate_modification_risk of car_only_console.py: the warranty table
\* compares car_year with 3 first, which raises on None
console_calculate_modification_risk(modification_data, car_data, year_now) ==
    LET car_year == console_car_year(car_data, year_now)
    IN  IF car_year = {}
        THEN Raised("TypeError")
        ELSE Returned(RiskScore(modification_data.category, modification_data.price,
                                CHOOSE y \in car_year : TRUE,
                                console_car_make(car_data)))

\* calculate_modification_risk of streamlit_app.py: car_data.get(...), which a
\* sqlite3.Row does not have
web_calculate_modification_risk(modification_data, car_data, year_now) ==
    IF car_data.type # "dict"
    THEN Raised("AttributeError")
    ELSE LET car_year == IF car_data.has_keys THEN car_data.car_year ELSE { year_now }
             car_make == IF car_data.has_keys THEN car_data.car_make ELSE ""
         IN  IF car_year = {}
             THEN Raised("TypeError")
             ELSE Returned(RiskScore(modification_data.category, modification_data.price,
                                     CHOOSE y \in car_year : TRUE, car_make))

----------------------------------------------------------------------------
(* State machine of a build: select, price, finish *)

NoCall == [called |-> FALSE]

\* table customers without the purchase counters
NoAccounts == << >>

\* no checkout is under way; no web session is open
NoCheckouts == << >>
NoSession == [open |-> FALSE]

\* the modification a risk analysis starts from
NoMod == [category |-> "Color", price |-> 0]

\* [year, month] at which the program runs
Init ==
    /\ now \in [year : {BaseYear}, month : Months]
    /\ customers \in [Registered -> VisitCounts]
    /\ customer_email \in Emails
    /\ selected_mods = <<>>
    /\ selected_color = NoColor
    /\ totals = NoCall
    /\ car = {}
    /\ mod_data = NoMod
    /\ risk = NoCall
    /\ interp = NoCall
    /\ reco = NoCall
    /\ features = NoCall
    /\ accounts = NoAccounts
    /\ bills = <<>>
    /\ checkouts = NoCheckouts
    /\ session = NoSession

\* select_modifications: one more modification is appended to the build
SelectMod ==
    \E mod \in Modifications :
        /\ totals = NoCall
        /\ Len(selected_mods) < MaxMods
        /\ selected_mods' = Append(selected_mods, mod)
        /\ UNCHANGED <<now, customers, customer_email, selected_color, totals,
                       car, mod_data, risk,
                       interp, reco, features, accounts, bills,
                       checkouts, session>>

\* build_page: a colour is selected, or the selected colour removed
SelectColor ==
    \E color \in Colors :
        /\ totals = NoCall
        /\ color # selected_color
        /\ selected_color' = color
        /\ UNCHANGED <<now, customers, customer_email, selected_mods, totals,
                       car, mod_data, risk,
                       interp, reco, features, accounts, bills,
                       checkouts, session>>

\* totals = calculate_totals(selected_mods, selected_color, customer_email)
CalculateTotals ==
    /\ totals = NoCall
    /\ totals' = [ called |-> TRUE,
                   result |-> calculate_totals(selected_mods, selected_color,
                                               customer_email, customers, now.month) ]
    /\ UNCHANGED <<now, customers, customer_email, selected_mods, selected_color,
                   car, mod_data, risk,
                       interp, reco, features, accounts, bills,
                       checkouts, session>>

\* the build is left (purchase cancelled): the next build starts empty
FinishBuild ==
    /\ totals # NoCall
    /\ selected_mods' = <<>>
    /\ selected_color' = NoColor
    /\ totals' = NoCall
    /\ UNCHANGED <<now, customers, customer_email, car, mod_data, risk,
                       interp, reco, features, accounts, bills,
                       checkouts, session>>

Next == SelectMod \/ SelectColor \/ CalculateTotals \/ FinishBuild

Spec == Init /\ [][Next]_vars


----------------------------------------------------------------------------
(* State machine of a risk analysis: a car, a modification, the analysis *)

\* prices on both sides of every insurance tier
RiskPrices == { 0, 1000, 5000, 5001, 20000, 20001, 50000, 50001 }

\* years typed into the Year field
YearInputs == { 1899, 1900, 2020, 2024, BaseYear, BaseYear + 1, BaseYear + 2 }

FrontEnds == { "console", "web" }

InitRisk ==
    /\ now \in [year : {BaseYear}, month : {1}]
    /\ customers \in [Registered -> {0}]
    /\ customer_email \in Registered
    /\ selected_mods = <<>>
    /\ selected_color = NoColor
    /\ totals = NoCall
    /\ car = {}
    /\ mod_data = NoMod
    /\ risk = NoCall
    /\ interp = NoCall
    /\ reco = NoCall
    /\ features = NoCall
    /\ accounts = NoAccounts
    /\ bills = <<>>
    /\ checkouts = NoCheckouts
    /\ session = NoSession

\* add_car (console): the year may be skipped; build_page (web): a year is
\* always given.  Both accept 1900 .. next year.
AddCar ==
    \E fe \in FrontEnds, car_year \in { {} } \cup { {y} : y \in YearInputs },
       car_make \in Makes :
        /\ risk = NoCall
        /\ car = {}
        /\ car_year = {} => fe = "console"
        /\ \A y \in car_year : 1900 <= y /\ y <= now.year + 1
        /\ car' = { [car_year |-> car_year, car_make |-> car_make] }
        /\ UNCHANGED <<now, customers, customer_email, selected_mods, selected_color,
                       totals, mod_data, risk,
                       interp, reco, features, accounts, bills,
                       checkouts, session>>

\* the analysis turns to a modification (a purchased item, a cart entry)
SelectRiskMod ==
    \E category \in Categories \cup { Unmapped }, price \in RiskPrices :
        /\ risk = NoCall
        /\ mod_data' = [category |-> category, price |-> price]
        /\ mod_data' # mod_data
        /\ UNCHANGED <<now, customers, customer_email, selected_mods, selected_color,
                       totals, car, risk,
                       interp, reco, features, accounts, bills,
                       checkouts, session>>

\* risk_analysis (console); ai_recommendations_page (web)
RiskAnalysis ==
    \E fe \in FrontEnds :
        /\ risk = NoCall
        /\ risk' = [ called  |-> TRUE,
                     fe      |-> fe,
                     outcome |-> IF fe = "console"
                                 THEN console_calculate_modification_risk(
                                          mod_data, console_car_info(car), now.year)
                                 ELSE web_calculate_modification_risk(
                                          mod_data, web_car_data(car), now.year) ]
        /\ UNCHANGED <<now, customers, customer_email, selected_mods, selected_color,
                       totals, car, mod_data,
                       interp, reco, features, accounts, bills,
                       checkouts, session>>

\* the result has been shown
ClearRisk ==
    /\ risk # NoCall
    /\ risk' = NoCall
    /\ UNCHANGED <<now, customers, customer_email, selected_mods, selected_color,
                   totals, car, mod_data,
                       interp, reco, features, accounts, bills,
                       checkouts, session>>

NextRisk == AddCar \/ SelectRiskMod \/ RiskAnalysis \/ ClearRisk

SpecRisk == InitRisk /\ [][NextRisk]_vars

----------------------------------------------------------------------------
(* Properties of calculate_totals.  They speak of the build that was       *)
(* priced: while totals is set, selected_mods, selected_color,             *)
(* customer_email, customers and now are those of the call.                *)

\* the sum of the prices of a cart, in currency units
RECURSIVE PriceSum(_)
PriceSum(cart) == IF cart = <<>> THEN 0 ELSE Head(cart).price + PriceSum(Tail(cart))

\* the pre-discount sum of the priced build, in amounts
PricedRaw ==
    (PriceSum(selected_mods) + IF selected_color.is_none THEN 0 ELSE selected_color.price)
        * Unit

\* the priced build's customer is known and has exactly v visits
PricedVisits(v) == customer_email \in Registered /\ customers[customer_email] = v

\* C1: whatever the cart, the colour, the customer and the month, the
\* discount_percent that calculate_totals returns lies in [0, 30].
C1_DiscountPercentInRange ==
    totals.called =>
        /\ totals.result.discount_percent >= 0
        /\ totals.result.discount_percent <= 30

\* a build on which the volume, loyalty and festival rules all fire
C1_Witness ==
    /\ totals.called
    /\ Len(selected_mods) >= 5
    /\ \E v \in VisitCounts : v > 5 /\ PricedVisits(v)
    /\ now.month \in {1, 10, 12}
    /\ totals.result.discount_percent = 30

\* C2 as stated: for every cart, negative prices included,
\* total >= subtotal_after_discount, and the gst is never negative.
C2_TotalAtLeastSubtotal ==
    totals.called =>
        /\ totals.result.total >= totals.result.subtotal_after_discount
        /\ totals.result.gst >= 0

\* C2 as amended: total >= subtotal_after_discount and gst >= 0 exactly for the
\* carts whose prices (colour included) sum to a non-negative amount; a negative
\* sum yields a negative gst and a total below subtotal_after_discount.
C2_TotalAtLeastSubtotalIffNonNegative ==
    totals.called =>
        /\ (totals.result.total >= totals.result.subtotal_after_discount) <=> (PricedRaw >= 0)
        /\ (totals.result.gst >= 0) <=> (PricedRaw >= 0)

\* a discounted build of positive sum
C2_Witness ==
    /\ totals.called
    /\ PricedRaw > 0
    /\ totals.result.discount_percent > 0
    /\ totals.result.gst > 0

\* C3 as stated: the empty cart with no colour and no customer yields 0 in all
\* six fields, in every month.
C3_EmptyCartAllZero ==
    (totals.called /\ selected_mods = <<>> /\ selected_color.is_none
        /\ customer_email = NoEmail) =>
        /\ totals.result.subtotal = 0
        /\ totals.result.discount_percent = 0
        /\ totals.result.discount_amount = 0
        /\ totals.result.subtotal_after_discount = 0
        /\ totals.result.gst = 0
        /\ totals.result.total = 0

\* C3 as amended: the empty cart with no colour and no customer yields 0 for
\* subtotal, discount_amount, subtotal_after_discount, gst and total in every
\* month; its discount_percent is 5 in January, October and December and 0 in
\* the other months.
C3_EmptyCartZeroAmounts ==
    (totals.called /\ selected_mods = <<>> /\ selected_color.is_none
        /\ customer_email = NoEmail) =>
        /\ totals.result.subtotal = 0
        /\ totals.result.discount_amount = 0
        /\ totals.result.subtotal_after_discount = 0
        /\ totals.result.gst = 0
        /\ totals.result.total = 0
        /\ totals.result.discount_percent = IF now.month \in {1, 10, 12} THEN 5 ELSE 0

\* the empty build priced in December
C3_Witness ==
    /\ totals.called
    /\ selected_mods = <<>>
    /\ selected_color.is_none
    /\ customer_email = NoEmail
    /\ now.month = 12

C6_Case ==
    /\ totals.called
    /\ Len(selected_mods) = 5
    /\ selected_color.is_none
    /\ PriceSum(selected_mods) = 10000
    /\ PricedVisits(10)
    /\ now.month = 12

\* C6: five modifications that sum to 10000, a customer with 10 visits, in
\* December: discount 30%, 3000 off, 7000 after discount, gst 1260, total 8260.
C6_FiveModsDecember ==
    C6_Case =>
        /\ totals.result.discount_percent = 30
        /\ totals.result.discount_amount = 3000 * Unit
        /\ totals.result.subtotal_after_discount = 7000 * Unit
        /\ totals.result.gst = 1260 * Unit
        /\ totals.result.total = 8260 * Unit

C6_Witness == C6_Case /\ totals.result.total > 0

\* the build of C7: three modifications of 1000, no earlier visit, no festival
C7_Case ==
    /\ totals.called
    /\ Len(selected_mods) = 3
    /\ \A i \in 1..3 : selected_mods[i].price = 1000
    /\ selected_color.is_none
    /\ PricedVisits(0)
    /\ now.month \notin {1, 10, 12}

\* C7: three modifications of 1000 each, a customer with 0 visits, outside
\* January, October and December: discount 10%, 300 off, 2700 after discount,
\* gst 486, total 3186.
C7_ThreeModsPlainMonth ==
    C7_Case =>
        /\ totals.result.discount_percent = 10
        /\ totals.result.discount_amount = 300 * Unit
        /\ totals.result.subtotal_after_discount = 2700 * Unit
        /\ totals.result.gst = 486 * Unit
        /\ totals.result.total = 3186 * Unit

C7_Witness == C7_Case /\ totals.result.total > 0

----------------------------------------------------------------------------
(* Properties of the risk calculator.  While risk is set, mod_data, car and *)
(* now are those of the call.                                               *)

\* the customer has a car whose year is recorded
CarWithYear == \E row \in car : row.car_year # {}

\* the customer has no car, or a car whose car_year is NULL
CarYearAbsent == car = {} \/ \E row \in car : row.car_year = {}

\* C8: for every category, mapped or not, every price and every car year and
\* make, calculate_modification_risk does not raise and returns a score in
\* [1, 10], in both front-ends.
C8_RiskScoreInRange ==
    (risk.called /\ CarWithYear) =>
        /\ risk.outcome.raised = ""
        /\ risk.outcome.score >= 10
        /\ risk.outcome.score <= 100

\* C9: with the car year absent (no car, or a car whose car_year is NULL) the
\* risk computation does not raise and returns a score in [1, 10].
C9_AbsentYearNoRaise ==
    (risk.called /\ CarYearAbsent) =>
        /\ risk.outcome.raised = ""
        /\ risk.outcome.score >= 10
        /\ risk.outcome.score <= 100

\* the call of C10: Color, price 1000, a car of 2020 of a non-premium make,
\* analysed by the console front-end
C10_Case ==
    /\ risk.called
    /\ risk.fe = "console"
    /\ mod_data = [category |-> "Color", price |-> 1000]
    /\ \E row \in car : row.car_year = {2020} /\ row.car_make \notin PremiumMakes

\* C10 as stated: the score for Color, price 1000, car year 2020 is one fixed
\* value between 3.8 and 4.0.
C10_ColorScoreBetween38And40 ==
    C10_Case =>
        /\ risk.outcome.raised = ""
        /\ risk.outcome.score >= 38
        /\ risk.outcome.score <= 40

\* C10 as amended: the score for Color, price 1000, car year 2020 and a
\* non-premium make is 3.1 on every call.
C10_ColorScoreIs31 ==
    C10_Case =>
        /\ risk.outcome.raised = ""
        /\ risk.outcome.score = 31

C10_Witness == C10_Case /\ risk.outcome.raised = ""

\* the arguments a returned risk call worked on: the year and the make
\* the calculator read from car_data
RiskCallYear ==
    IF car = {} THEN now.year ELSE CHOOSE y \in UNION { row.car_year : row \in car } : TRUE
RiskCallMake == IF car = {} THEN "" ELSE (CHOOSE row \in car : TRUE).car_make

\* the insurance sub-score as C20 words it, in tenths: the price tier, +1.0
\* for Performance, -0.5 for Safety, clamped to [0, 5]
C20_Insurance ==
    LET tier == CASE mod_data.price > 50000 -> 40
                  [] mod_data.price > 20000 /\ mod_data.price <= 50000 -> 30
                  [] mod_data.price > 5000 /\ mod_data.price <= 20000 -> 20
                  [] OTHER -> 10
        adj  == CASE mod_data.category = "Performance" -> 10
                  [] mod_data.category = "Safety" -> 0 - 5
                  [] OTHER -> 0
    IN  IF tier + adj < 0 THEN 0 ELSE IF tier + adj > 50 THEN 50 ELSE tier + adj

\* the six sub-scores of the call, in tenths; on a category no table maps,
\* the defaults C20 lists
C20_SubScores ==
    IF mod_data.category = Unmapped
    THEN [w |-> 20, i |-> C20_Insurance, c |-> 25, m |-> 20, r |-> 25, l |-> 20]
    ELSE [w |-> _calculate_warranty_risk(mod_data.category, RiskCallYear),
          i |-> C20_Insurance,
          c |-> _calculate_complexity_risk(mod_data.category),
          m |-> _calculate_maintenance_risk(mod_data.category),
          r |-> _calculate_resale_risk(mod_data.category, RiskCallMake),
          l |-> _calculate_legal_risk(mod_data.category, RiskCallYear)]

\* 13 * 100 times 2 * (3.0 w + 2.5 i + 2.0 c + 1.5 m + 1.0 r + 3.0 l) / 13,
\* clamped to [1, 10]
C20_Clamped ==
    LET t == C20_SubScores
        x == 2 * (30 * t.w + 25 * t.i + 20 * t.c + 15 * t.m + 10 * t.r + 30 * t.l)
    IN  IF x < 1300 THEN 1300 ELSE IF x > 13000 THEN 13000 ELSE x

\* C20: a risk computation that returns, returns round1(clamp(2 * (3.0 *
\* warranty + 2.5 * insurance + 2.0 * complexity + 1.5 * maintenance + 1.0 *
\* resale + 3.0 * legal) / 13, 1, 10)): the score is the tenth nearest to the
\* clamped value, with the defaults 2.0, 2.5, 2.0, 2.5, 2.0 on an unmapped
\* category and the insurance sub-score of the price tiers.
C20_RiskFormula ==
    (risk.called /\ risk.outcome.raised = "") =>
        LET d == 10 * C20_Clamped - risk.outcome.score * 1300
        IN  2 * d <= 1300 /\ 2 * d >= 0 - 1300

\* the console has scored an unmapped category in the highest price tier
C20_Witness ==
    /\ risk.called
    /\ risk.outcome.raised = ""
    /\ risk.fe = "console"
    /\ mod_data = [category |-> Unmapped, price |-> 50001]
    /\ car # {}
    /\ risk.outcome.score = 50

----------------------------------------------------------------------------
(* get_risk_interpretation: the level of a risk score (scores in tenths) *)

\* the scores calculate_modification_risk can return: round(x, 1) of an x
\* clamped into [1, 10]
Scores == (1 * 10) .. (10 * 10)

\* get_risk_interpretation of car_only_console.py
console_get_risk_interpretation(risk_score) ==
    IF risk_score <= 3 * 10
    THEN [level |-> "Low Risk", recommendation |-> "Recommended for all users"]
    ELSE IF risk_score <= 6 * 10
         THEN [level |-> "Medium Risk",
               recommendation |-> "Consult with our experts before proceeding"]
         ELSE [level |-> "High Risk",
               recommendation |-> "Professional consultation mandatory"]

\* the same with the bands cut by < instead of <=
web_get_risk_interpretation_lt(risk_score) ==
    IF risk_score < 3 * 10
    THEN [level |-> "Low Risk", color |-> "#28a745",
          recommendation |-> "Recommended for all users"]
    ELSE IF risk_score < 6 * 10
         THEN [level |-> "Medium Risk", color |-> "#ffc107",
               recommendation |-> "Consult with our experts before proceeding"]
         ELSE [level |-> "High Risk", color |-> "#dc3545",
               recommendation |-> "Professional consultation mandatory"]

\* get_risk_interpretation of streamlit_app.py
web_get_risk_interpretation(risk_score) ==
    IF risk_score <= 3 * 10
    THEN [level |-> "Low Risk", color |-> "#28a745",
          recommendation |-> "Recommended for all users"]
    ELSE IF risk_score <= 6 * 10
         THEN [level |-> "Medium Risk", color |-> "#ffc107",
               recommendation |-> "Consult with our experts before proceeding"]
         ELSE [level |-> "High Risk", color |-> "#dc3545",
               recommendation |-> "Professional consultation mandatory"]

\* a score is about to be interpreted by one of the front-ends
InitInterp ==
    /\ now \in [year : {BaseYear}, month : {1}]
    /\ customers \in [Registered -> {0}]
    /\ customer_email \in Registered
    /\ selected_mods = <<>>
    /\ selected_color = NoColor
    /\ totals = NoCall
    /\ car = {}
    /\ mod_data = NoMod
    /\ risk = NoCall
    /\ interp \in [called : {FALSE}, fe : FrontEnds, risk_score : Scores]
    /\ reco = NoCall
    /\ features = NoCall
    /\ accounts = NoAccounts
    /\ bills = <<>>
    /\ checkouts = NoCheckouts
    /\ session = NoSession

\* interpretation = risk_calculator.get_risk_interpretation(risk_score)
Interpret ==
    /\ ~interp.called
    /\ interp' = [ called     |-> TRUE,
                   fe         |-> interp.fe,
                   risk_score |-> interp.risk_score,
                   result     |-> IF interp.fe = "console"
                                  THEN console_get_risk_interpretation(interp.risk_score)
                                  ELSE web_get_risk_interpretation(interp.risk_score) ]
    /\ UNCHANGED <<now, customers, customer_email, selected_mods, selected_color,
                   totals, car, mod_data, risk, reco, features, accounts, bills,
                       checkouts, session>>

NextInterp == Interpret

SpecInterp == InitInterp /\ [][NextInterp]_vars

\* C11: get_risk_interpretation gives every score s in [1, 10] exactly one
\* level: Low Risk when s <= 3, Medium Risk when 3 < s <= 6, High Risk when
\* s > 6, in both front-ends.
C11_LevelBands ==
    interp.called =>
        LET s == interp.risk_score
            level == interp.result.level
        IN  /\ level \in { "Low Risk", "Medium Risk", "High Risk" }
            /\ level = "Low Risk" <=> s <= 30
            /\ level = "Medium Risk" <=> (30 < s /\ s <= 60)
            /\ level = "High Risk" <=> s > 60

\* the web front-end has interpreted the score 6.0, the top of the medium band
C11_Witness ==
    /\ interp.called
    /\ interp.fe = "web"
    /\ interp.risk_score = 60
    /\ interp.result.level = "Medium Risk"

----------------------------------------------------------------------------
(* AIRecommendationEngine: scoring, the candidate set, the returned list.  *)
(* Prices are in currency units here.                                      *)

\* most rows of table modifications that a request ranks
MaxCatalog == 3

\* highest COUNT(*) of a category in a purchase history
MaxFreq == 11

\* highest limit a caller asks for
MaxLimit == 2

\* rows of table modifications (is_active = 1).  Against an average spend of
\* 1000 the prices 750 and 2250 have the price ratios 0.5 and 1.5.
RecoMods ==
    { [mod_id |-> 1, price |-> 1000, category |-> "Performance"],
      [mod_id |-> 2, price |-> 400,  category |-> "Safety"],
      [mod_id |-> 3, price |-> 9000, category |-> "Aesthetic"],
      [mod_id |-> 4, price |-> 2250, category |-> "Performance"],
      [mod_id |-> 5, price |-> 750,  category |-> "Safety"] }

\* rows of the purchase-history query: one per category (GROUP BY), with
\* COUNT(*) >= 1 and AVG(bi.price), which takes the sign of the prices bought
PrefRows ==
    [ mod_category : { "Performance", "Safety" },
      frequency    : { 1, 2, MaxFreq },
      avg_spent    : { 0 - 1000, 0, 1000 } ]

\* user_prefs = cursor.fetchall(): no two rows of one category
PrefSets ==
    { prefs \in SUBSET PrefRows :
        \A p, q \in prefs : p.mod_category = q.mod_category => p = q }

\* car_info = cursor.fetchone(): no row, or the row of the customer's car
RecoCars ==
    { {} } \cup
    { { [car_year |-> y, car_make |-> ""] } :
        y \in { {}, {BaseYear - 4}, {BaseYear - 5}, {BaseYear - 6} } }

Limits == 0 .. MaxLimit

\* sum(p['avg_spent'] for p in user_prefs)
RECURSIVE SumAvgSpent(_)
SumAvgSpent(user_prefs) ==
    IF user_prefs = {} THEN 0
    ELSE LET p == CHOOSE q \in user_prefs : TRUE
         IN  p.avg_spent + SumAvgSpent(user_prefs \ {p})

\* the outcome of a step of the scoring: a value, or an exception
Value(v) == [raised |-> "", value |-> v]
NoValue(exception) == [raised |-> exception, value |-> 0]

\* the price rule with its tests on user_prefs and avg_spent left out
price_suitability_unguarded(mod, user_prefs) ==
    LET n     == Cardinality(user_prefs)
        total == SumAvgSpent(user_prefs)
    IN  IF n = 0 \/ total = 0 THEN NoValue("ZeroDivisionError")
        ELSE IF total > 0
             THEN IF 4 * n * mod.price >= 3 * total /\ 4 * n * mod.price <= 9 * total
                  THEN Value(20)
                  ELSE IF 4 * n * mod.price < 3 * total THEN Value(10)
                  ELSE Value(0 - 10)
        ELSE IF 4 * n * mod.price <= 3 * total /\ 4 * n * mod.price >= 9 * total
             THEN Value(20)
             ELSE IF 4 * n * mod.price > 3 * total THEN Value(10)
             ELSE Value(0 - 10)

\* the price rule with the ends of the band left out (< for <=)
price_suitability_open_band(mod, user_prefs) ==
    LET n     == Cardinality(user_prefs)
        total == SumAvgSpent(user_prefs)
    IN  IF user_prefs = {} \/ total <= 0 THEN Value(0)
        ELSE IF 4 * n * mod.price > 3 * total /\ 4 * n * mod.price < 9 * total
             THEN Value(20)
        ELSE IF 4 * n * mod.price < 3 * total THEN Value(10)
        ELSE Value(0 - 10)

\* 2. Price range suitability.  avg_spent = total_spent / len(user_prefs) if
\* user_prefs else 0; the ratio is taken only if avg_spent > 0.  With total
\* the sum of the avg_spent and n the number of rows, price_ratio = price /
\* (total / n * 1.5), so 0.5 <= price_ratio is 4 n price >= 3 total and
\* price_ratio <= 1.5 is 4 n price <= 9 total.
price_suitability(mod, user_prefs) ==
    LET n     == Cardinality(user_prefs)
        total == SumAvgSpent(user_prefs)
    IN  IF user_prefs = {} \/ total <= 0 THEN Value(0)
        ELSE IF 4 * n * mod.price >= 3 * total /\ 4 * n * mod.price <= 9 * total
             THEN Value(20)
        ELSE IF 4 * n * mod.price < 3 * total THEN Value(10)
        ELSE Value(0 - 10)

\* 1. Category preference boost: frequency * 5 of the row of the category
category_boost(mod, user_prefs) ==
    LET matching == { p \in user_prefs : p.mod_category = mod.category }
    IN  IF matching = {} THEN 0
        ELSE (CHOOSE p \in matching : TRUE).frequency * 5

\* the car rule with a missing year taken as the year 0
car_compatibility_year0(mod, car_info, year_now) ==
    LET row      == CHOOSE r \in car_info : TRUE
        car_year == IF row.car_year = {} THEN 0
                    ELSE CHOOSE y \in row.car_year : TRUE
        car_age  == year_now - car_year
    IN  IF car_info = {} THEN 0
        ELSE (IF mod.category = "Performance" /\ car_age < 5 THEN 10 ELSE 0)
             + (IF mod.category = "Safety" /\ car_age > 5 THEN 10 ELSE 0)

\* 3. Car model compatibility, if car_info: car_age = now.year -
\* (car_info['car_year'] or now.year)
car_compatibility(mod, car_info, year_now) ==
    LET row      == CHOOSE r \in car_info : TRUE
        car_year == IF row.car_year = {} \/ row.car_year = {0} THEN year_now
                    ELSE CHOOSE y \in row.car_year : TRUE
        car_age  == year_now - car_year
    IN  IF car_info = {} THEN 0
        ELSE (IF mod.category = "Performance" /\ car_age < 5 THEN 10 ELSE 0)
             + (IF mod.category = "Safety" /\ car_age > 5 THEN 10 ELSE 0)

\* score after the three rules, before any clamp
RawScore(mod, user_prefs, car_info, year_now) ==
    50 + category_boost(mod, user_prefs)
       + price_suitability(mod, user_prefs).value
       + car_compatibility(mod, car_info, year_now)

\* the scoring loop raises when a step of it does
scoring_raises(all_mods, user_prefs) ==
    \E i \in 1 .. Len(all_mods) : price_suitability(all_mods[i], user_prefs).raised # ""

\* the score returned without the clamp
calculate_modification_score_unclamped(mod, user_prefs, car_info, year_now) ==
    RawScore(mod, user_prefs, car_info, year_now)

\* calculate_modification_score of streamlit_app.py: min(max(score, 0), 100)
calculate_modification_score(mod, user_prefs, car_info, year_now) ==
    Min(Max(RawScore(mod, user_prefs, car_info, year_now), 0), 100)

\* an entry of the list recommendations
Recommendation(mod, ai_score) ==
    [mod_id |-> mod.mod_id, category |-> mod.category, price |-> mod.price,
     ai_score |-> ai_score]

\* the loop of car_only_console.py: if score >= 60, append with min(score, 100)
RECURSIVE console_candidates(_, _, _, _)
console_candidates(all_mods, user_prefs, car_info, year_now) ==
    IF all_mods = <<>> THEN <<>>
    ELSE LET mod   == Head(all_mods)
             score == RawScore(mod, user_prefs, car_info, year_now)
             rest  == console_candidates(Tail(all_mods), user_prefs, car_info, year_now)
         IN  IF score >= 60
             THEN <<Recommendation(mod, Min(score, 100))>> \o rest
             ELSE rest

\* the loop of streamlit_app.py: if score >= 60, append with the score
RECURSIVE web_candidates(_, _, _, _)
web_candidates(all_mods, user_prefs, car_info, year_now) ==
    IF all_mods = <<>> THEN <<>>
    ELSE LET mod   == Head(all_mods)
             score == calculate_modification_score(mod, user_prefs, car_info, year_now)
             rest  == web_candidates(Tail(all_mods), user_prefs, car_info, year_now)
         IN  IF score >= 60
             THEN <<Recommendation(mod, score)>> \o rest
             ELSE rest

\* generate_recommendation_reason: car_info.get('car_year', 0) is reached for
\* a Performance modification when car_info is a row, and a sqlite3.Row has
\* no get
reason_raises(candidates, car_info) ==
    /\ car_info # {}
    /\ \E i \in 1 .. Len(candidates) : candidates[i].category = "Performance"

\* list.sort(key = ai_score, reverse = True): stable, so an entry goes behind
\* the entries of equal ai_score that precede it
RECURSIVE InsertByScore(_, _)
InsertByScore(rec, sorted) ==
    IF sorted = <<>> THEN <<rec>>
    ELSE IF Head(sorted).ai_score >= rec.ai_score
         THEN <<Head(sorted)>> \o InsertByScore(rec, Tail(sorted))
         ELSE <<rec>> \o sorted

RECURSIVE SortByScore(_)
SortByScore(recommendations) ==
    IF recommendations = <<>> THEN <<>>
    ELSE InsertByScore(recommendations[Len(recommendations)],
                       SortByScore(SubSeq(recommendations, 1, Len(recommendations) - 1)))

\* a slice that keeps one entry more
TopPlusOne(recommendations, limit) ==
    SubSeq(recommendations, 1, Min(limit + 1, Len(recommendations)))

\* recommendations[:limit], limit >= 0
Top(recommendations, limit) ==
    SubSeq(recommendations, 1, Min(limit, Len(recommendations)))

ReturnedList(candidates, list) ==
    [raised |-> "", candidates |-> candidates, list |-> list]
RaisedInList(exception) ==
    [raised |-> exception, candidates |-> <<>>, list |-> <<>>]

\* get_personalized_recommendations of car_only_console.py
console_get_personalized_recommendations(user_prefs, car_info, all_mods, limit, year_now) ==
    LET recommendations == console_candidates(all_mods, user_prefs, car_info, year_now)
    IN  IF scoring_raises(all_mods, user_prefs)
        THEN RaisedInList("ZeroDivisionError")
        ELSE ReturnedList(recommendations, Top(SortByScore(recommendations), limit))

\* get_personalized_recommendations of streamlit_app.py
web_get_personalized_recommendations(user_prefs, car_info, all_mods, limit, year_now) ==
    LET recommendations == web_candidates(all_mods, user_prefs, car_info, year_now)
    IN  IF scoring_raises(all_mods, user_prefs)
        THEN RaisedInList("ZeroDivisionError")
        ELSE IF reason_raises(recommendations, car_info)
             THEN RaisedInList("AttributeError")
             ELSE ReturnedList(recommendations, Top(SortByScore(recommendations), limit))

\* a customer with a purchase history and possibly a car asks one of the
\* front-ends for recommendations; the catalogue is still empty
InitReco ==
    /\ now \in [year : {BaseYear}, month : {1}]
    /\ customers \in [Registered -> {0}]
    /\ customer_email \in Registered
    /\ selected_mods = <<>>
    /\ selected_color = NoColor
    /\ totals = NoCall
    /\ car \in RecoCars
    /\ mod_data = NoMod
    /\ risk = NoCall
    /\ interp = NoCall
    /\ reco \in [called : {FALSE}, fe : FrontEnds, limit : Limits,
                 user_prefs : PrefSets, all_mods : { <<>> }]
    /\ features = NoCall
    /\ accounts = NoAccounts
    /\ bills = <<>>
    /\ checkouts = NoCheckouts
    /\ session = NoSession

\* a row is inserted into table modifications (mod_id is its primary key)
AddModification ==
    \E mod \in RecoMods :
        /\ ~reco.called
        /\ Len(reco.all_mods) < MaxCatalog
        /\ \A i \in 1 .. Len(reco.all_mods) : reco.all_mods[i].mod_id # mod.mod_id
        /\ reco' = [reco EXCEPT !.all_mods = Append(@, mod)]
        /\ UNCHANGED <<now, customers, customer_email, selected_mods, selected_color,
                       totals, car, mod_data, risk, interp, features, accounts, bills,
                       checkouts, session>>

\* ai_recommendations (console), ai_recommendations_page (web)
Recommend ==
    /\ ~reco.called
    /\ reco' = [ called     |-> TRUE,
                 fe         |-> reco.fe,
                 limit      |-> reco.limit,
                 user_prefs |-> reco.user_prefs,
                 all_mods   |-> reco.all_mods,
                 outcome    |-> IF reco.fe = "console"
                                THEN console_get_personalized_recommendations(
                                         reco.user_prefs, car, reco.all_mods,
                                         reco.limit, now.year)
                                ELSE web_get_personalized_recommendations(
                                         reco.user_prefs, car, reco.all_mods,
                                         reco.limit, now.year) ]
    /\ UNCHANGED <<now, customers, customer_email, selected_mods, selected_color,
                   totals, car, mod_data, risk, interp, features, accounts, bills,
                       checkouts, session>>

NextReco == AddModification \/ Recommend

SpecReco == InitReco /\ [][NextReco]_vars

\* the score the front-end of the request gives a candidate
FinalScore(mod) ==
    IF reco.fe = "console"
    THEN RawScore(mod, reco.user_prefs, car, now.year)
    ELSE calculate_modification_score(mod, reco.user_prefs, car, now.year)

\* the request returned a list
RecoReturned == reco.called /\ reco.outcome.raised = ""

\* C12: the recommendation score is within [0, 100] for every purchase
\* profile, price and car: the score calculate_modification_score gives every
\* catalogue row, and every ai_score of a returned list, in both front-ends.
C12_ScoreInRange ==
    reco.called =>
        /\ \A i \in 1 .. Len(reco.all_mods) :
             LET score == calculate_modification_score(reco.all_mods[i],
                                                       reco.user_prefs, car, now.year)
             IN  0 <= score /\ score <= 100
        /\ \A i \in 1 .. Len(reco.outcome.list) :
             /\ 0 <= reco.outcome.list[i].ai_score
             /\ reco.outcome.list[i].ai_score <= 100

\* a returned list holds an entry whose score of 50 + 5 * MaxFreq + 20 was cut
\* to 100
C12_Witness ==
    /\ RecoReturned
    /\ \E i \in 1 .. Len(reco.outcome.list) :
         /\ reco.outcome.list[i].ai_score = 100
         /\ \E j \in 1 .. Len(reco.all_mods) :
              /\ reco.all_mods[j].mod_id = reco.outcome.list[i].mod_id
              /\ RawScore(reco.all_mods[j], reco.user_prefs, car, now.year) > 100

\* the candidate set of the request holds the catalogue row mod
InCandidates(mod) ==
    \E k \in 1 .. Len(reco.outcome.candidates) :
        reco.outcome.candidates[k].mod_id = mod.mod_id

\* C13: get_personalized_recommendations includes an active modification in
\* its candidate set exactly when its final score is >= 60 (60 is included,
\* anything lower is not), and no returned entry has ai_score < 60.
C13_IncludedIffAtLeast60 ==
    reco.called =>
        /\ \A i \in 1 .. Len(reco.all_mods) :
             FinalScore(reco.all_mods[i]) >= 60 <=> InCandidates(reco.all_mods[i])
        /\ \A k \in 1 .. Len(reco.outcome.list) : reco.outcome.list[k].ai_score >= 60

\* the place of a modification in the catalogue query's result
CatalogPos(mod_id) ==
    CHOOSE i \in 1 .. Len(reco.all_mods) : reco.all_mods[i].mod_id = mod_id

\* the catalogue rows that qualify, and the ai_score each is listed with
Qualifying == { i \in 1 .. Len(reco.all_mods) : FinalScore(reco.all_mods[i]) >= 60 }
ListedScore(i) == IF FinalScore(reco.all_mods[i]) > 100 THEN 100
                  ELSE FinalScore(reco.all_mods[i])

\* C14: the returned list is sorted by ai_score in non-increasing order, has
\* at most limit entries, consists of the highest-scoring qualifying
\* candidates (as many as the limit allows), and keeps candidates of equal
\* ai_score in catalogue order.
C14_SortedTopOfQualifying ==
    RecoReturned =>
        LET list == reco.outcome.list
            listed == { CatalogPos(list[k].mod_id) : k \in 1 .. Len(list) }
        IN  /\ Len(list) <= reco.limit
            /\ Len(list) = IF Cardinality(Qualifying) < reco.limit
                           THEN Cardinality(Qualifying) ELSE reco.limit
            /\ \A k \in 1 .. Len(list) :
                 /\ \E i \in Qualifying :
                      /\ reco.all_mods[i].mod_id = list[k].mod_id
                      /\ list[k].ai_score = ListedScore(i)
                 /\ \A j \in 1 .. Len(list) :
                      k < j =>
                        /\ list[k].mod_id # list[j].mod_id
                        /\ list[k].ai_score >= list[j].ai_score
                        /\ list[k].ai_score = list[j].ai_score =>
                             CatalogPos(list[k].mod_id) < CatalogPos(list[j].mod_id)
            /\ \A i \in Qualifying \ listed :
                 \A k \in 1 .. Len(list) :
                     \/ list[k].ai_score > ListedScore(i)
                     \/ /\ list[k].ai_score = ListedScore(i)
                        /\ CatalogPos(list[k].mod_id) < i

\* three candidates qualify and the limit is 2: the sort moved two entries
\* of equal ai_score ahead of an earlier catalogue row, which the slice drops
C14_Witness ==
    /\ RecoReturned
    /\ reco.limit = 2
    /\ Len(reco.outcome.candidates) = 3
    /\ Len(reco.outcome.list) = 2
    /\ reco.outcome.list[1].ai_score = reco.outcome.list[2].ai_score
    /\ reco.outcome.list[1] = reco.outcome.candidates[2]
    /\ reco.outcome.list[2] = reco.outcome.candidates[3]

----------------------------------------------------------------------------
(* CustomerClassifier: the type of a customer from the spending features,  *)
(* and the bundle of a type.  Spending is in amounts (units * Unit).       *)

\* the names of CUSTOMER_TYPES, by index
CUSTOMER_TYPES ==
    [ idx \in 0 .. 2 |->
        [ name |-> CASE idx = 0 -> "Performance Seeker"
                     [] idx = 1 -> "Daily Comfort"
                     [] idx = 2 -> "Luxury / Aesthetic" ] ]

\* features['total_spent'] = SUM(bills.total) or 0
TotalSpents == { 0, Unit \div 2, Unit, 10000 * Unit }

\* features['cat_performance_spent'], features['cat_aesthetic_spent']:
\* SUM(bill_items.total_price) of the category, 0 without such items
PerformanceSpents == { 0, 3 * (Unit \div 10), 4000 * Unit, 5000 * Unit }
AestheticSpents   == { 0, 2 * (Unit \div 10), 3000 * Unit, 4000 * Unit }

\* classify_customer of car_only_console.py.  With total_spent > 0,
\* spent / total_spent > 0.4 is 5 spent > 2 total_spent, and > 0.3 is
\* 10 spent > 3 total_spent.
console_classify_customer(f) ==
    IF f.total_spent = 0
    THEN CUSTOMER_TYPES[1]
    ELSE IF 5 * f.cat_performance_spent > 2 * f.total_spent
         THEN CUSTOMER_TYPES[0]
         ELSE IF 10 * f.cat_aesthetic_spent > 3 * f.total_spent
              THEN CUSTOMER_TYPES[2]
              ELSE CUSTOMER_TYPES[1]

\* classify_customer of streamlit_app.py: the ratios are taken over
\* max(total_spent, 1)
web_classify_customer(f) ==
    LET denominator == Max(f.total_spent, 1 * Unit)
    IN  IF 5 * f.cat_performance_spent > 2 * denominator
        THEN CUSTOMER_TYPES[0]
        ELSE IF 10 * f.cat_aesthetic_spent > 3 * denominator
             THEN CUSTOMER_TYPES[2]
             ELSE CUSTOMER_TYPES[1]

\* the dict recommendations of car_only_console.py
console_recommendations ==
    [ idx \in 0 .. 2 |->
        CASE idx = 0 ->
               [ must_have |-> <<"Turbocharger Kit", "Performance Exhaust", "Sports Suspension">>,
                 recommended |-> <<"ECU Remap", "Advanced Brake System", "Lightweight Wheels">>,
                 budget_friendly |-> <<"Air Intake System", "Performance Chip", "Strut Bar">> ]
          [] idx = 1 ->
               [ must_have |-> <<"Premium Leather Seats", "Premium Sound System", "Sunroof">>,
                 recommended |-> <<"Climate Control", "Noise Insulation", "Backup Camera">>,
                 budget_friendly |-> <<"Seat Covers", "Steering Wheel Cover", "Car Organizer">> ]
          [] idx = 2 ->
               [ must_have |-> <<"Ceramic Coating", "Custom Paint Job", "LED Headlight Kit">>,
                 recommended |-> <<"Body Kit", "Carbon Fiber Hood", "Ambient Lighting">>,
                 budget_friendly |-> <<"Window Tinting", "Alloy Wheel Covers", "Dash Cam">> ] ]

\* the dict recommendations of streamlit_app.py
web_recommendations ==
    [ idx \in 0 .. 2 |->
        CASE idx = 0 ->
               [ must_have |-> <<"Stage 2 ECU Remap", "Performance Exhaust", "Sports Suspension">>,
                 recommended |-> <<"Turbocharger Kit", "Advanced Brake System", "Lightweight Wheels">>,
                 budget_friendly |-> <<"Air Intake System", "Performance Chip", "Strut Bar">> ]
          [] idx = 1 ->
               [ must_have |-> <<"Premium Leather Seats", "Dual Zone Climate Control", "Premium Sound System">>,
                 recommended |-> <<"Heated Seats", "Noise Insulation", "Adaptive Cruise Control">>,
                 budget_friendly |-> <<"Seat Covers", "Steering Wheel Cover", "Car Organizer">> ]
          [] idx = 2 ->
               [ must_have |-> <<"Ceramic Coating", "Custom Paint Job", "LED Headlight Kit">>,
                 recommended |-> <<"Body Kit", "Chrome Accessories", "Ambient Lighting">>,
                 budget_friendly |-> <<"Vinyl Wrap", "Alloy Wheel Covers", "Window Tinting">> ] ]

\* a lookup that falls back to the first bundle
get_recommendations_for_type_default0(fe, customer_type_idx) ==
    LET recommendations == IF fe = "console" THEN console_recommendations
                           ELSE web_recommendations
    IN  IF customer_type_idx \in DOMAIN recommendations
        THEN recommendations[customer_type_idx]
        ELSE recommendations[0]

\* recommendations.get(customer_type_idx, recommendations[1])
get_recommendations_for_type(fe, customer_type_idx) ==
    LET recommendations == IF fe = "console" THEN console_recommendations
                           ELSE web_recommendations
    IN  IF customer_type_idx \in DOMAIN recommendations
        THEN recommendations[customer_type_idx]
        ELSE recommendations[1]

\* the index the call sites look up by name, 1 when no name matches
TypeIdx(customer_type) ==
    IF \E idx \in DOMAIN CUSTOMER_TYPES : CUSTOMER_TYPES[idx].name = customer_type.name
    THEN CHOOSE idx \in DOMAIN CUSTOMER_TYPES : CUSTOMER_TYPES[idx].name = customer_type.name
    ELSE 1

\* indices outside CUSTOMER_TYPES
OtherIndices == { 0 - 1, 3 }

\* the features of a customer have been extracted by one of the front-ends
InitClassify ==
    /\ now \in [year : {BaseYear}, month : {1}]
    /\ customers \in [Registered -> {0}]
    /\ customer_email \in Registered
    /\ selected_mods = <<>>
    /\ selected_color = NoColor
    /\ totals = NoCall
    /\ car = {}
    /\ mod_data = NoMod
    /\ risk = NoCall
    /\ interp = NoCall
    /\ reco = NoCall
    /\ features \in [ called : {FALSE}, fe : FrontEnds,
                      total_spent : TotalSpents,
                      cat_performance_spent : PerformanceSpents,
                      cat_aesthetic_spent : AestheticSpents ]
    /\ accounts = NoAccounts
    /\ bills = <<>>
    /\ checkouts = NoCheckouts
    /\ session = NoSession

\* customer_type = classifier.classify_customer(customer_email)
Classify ==
    /\ ~features.called
    /\ features' = [ called |-> TRUE,
                     fe     |-> features.fe,
                     total_spent |-> features.total_spent,
                     cat_performance_spent |-> features.cat_performance_spent,
                     cat_aesthetic_spent |-> features.cat_aesthetic_spent,
                     customer_type |-> IF features.fe = "console"
                                       THEN console_classify_customer(features)
                                       ELSE web_classify_customer(features),
                     bundle |-> NoCall ]
    /\ UNCHANGED <<now, customers, customer_email, selected_mods, selected_color,
                   totals, car, mod_data, risk, interp, reco, accounts, bills,
                       checkouts, session>>

\* recommendations = classifier.get_recommendations_for_type(idx), with the
\* index of the customer's type or any other integer
RecommendForType ==
    /\ features.called
    /\ features.bundle = NoCall
    /\ \E idx \in { TypeIdx(features.customer_type) } \cup OtherIndices :
         features' = [features EXCEPT !.bundle =
                        [ called |-> TRUE,
                          customer_type_idx |-> idx,
                          recommendations |->
                              get_recommendations_for_type(features.fe, idx) ]]
    /\ UNCHANGED <<now, customers, customer_email, selected_mods, selected_color,
                   totals, car, mod_data, risk, interp, reco, accounts, bills,
                       checkouts, session>>

NextClassify == Classify \/ RecommendForType

SpecClassify == InitClassify /\ [][NextClassify]_vars

C16_FirstMatch ==
    IF features.cat_performance_spent * 10 > features.total_spent * 4
    THEN "Performance Seeker"
    ELSE IF features.cat_aesthetic_spent * 10 > features.total_spent * 3
         THEN "Luxury / Aesthetic"
         ELSE "Daily Comfort"

ThreeTiers(recommendations) ==
    /\ DOMAIN recommendations = { "must_have", "recommended", "budget_friendly" }
    /\ \A tier \in DOMAIN recommendations : Len(recommendations[tier]) > 0

\* C17: get_recommendations_for_type returns exactly the three tiers
\* must_have, recommended, budget_friendly, each non-empty, for the indices 0,
\* 1, 2; any other index returns the Daily Comfort bundle (index 1).
C17_ThreeTiersAndFallback ==
    (features.called /\ features.bundle # NoCall) =>
        LET idx == features.bundle.customer_type_idx
            recommendations == features.bundle.recommendations
        IN  /\ ThreeTiers(recommendations)
            /\ idx \notin { 0, 1, 2 } =>
                 /\ recommendations.must_have[1] = "Premium Leather Seats"
                 /\ recommendations.recommended[2] = "Noise Insulation"
                 /\ recommendations.budget_friendly[1] = "Seat Covers"
            /\ idx \in { 0, 2 } =>
                 recommendations.must_have[1] # "Premium Leather Seats"

\* the bundle of index 3 has been asked of the web front-end for a customer
\* classified Performance Seeker
C17_Witness ==
    /\ features.called
    /\ features.fe = "web"
    /\ features.customer_type.name = "Performance Seeker"
    /\ features.bundle # NoCall
    /\ features.bundle.customer_type_idx = 3
    /\ features.bundle.recommendations.must_have[1] = "Premium Leather Seats"

----------------------------------------------------------------------------
(* Checkout: create_build and save_bill (console), the purchase button of  *)
(* build_page (web).  A checkout prices the cart, inserts the bill and     *)
(* updates the customer's counters in one transaction.                     *)

\* most bills in table bills
MaxBills == 3

\* the customers who shop
Shoppers == Registered \cup { "ravi@example.com" }

\* the catalogue row of a mod_id
Mod(mod_id) == CHOOSE mod \in Modifications : mod.mod_id = mod_id

\* the carts that are checked out (never empty: create_build returns early)
CheckoutCarts ==
    { <<Mod(1)>>, <<Mod(2)>>, <<Mod(3)>>, <<Mod(1), Mod(2), Mod(2)>> }

\* int(x) of Python for x = num / den, den > 0: the fraction is dropped
int(num, den) == IF num >= 0 THEN num \div den ELSE 0 - ((0 - num) \div den)

\* points rounded away from zero
points_to_earn_away(total) ==
    IF total >= 0 THEN (total + 100 * Unit - 1) \div (100 * Unit)
    ELSE 0 - ((0 - total + 100 * Unit - 1) \div (100 * Unit))

\* int(totals['total'] / 100)
points_to_earn(total) == int(total, 100 * Unit)

\* the row INSERT INTO bills writes; loyalty_discount is the local of
\* calculate_totals that went into discount_percent
BillRow(bill_number, email, result, loyalty_discount) ==
    [ bill_number      |-> bill_number,
      customer_email   |-> email,
      discount_percent |-> result.discount_percent,
      total            |-> result.total,
      loyalty_discount |-> loyalty_discount ]

\* SELECT MAX(bill_number) FROM bills; (result or 0) + 1
NextBillNumber(rows) ==
    IF rows = <<>> THEN 1
    ELSE (CHOOSE n \in { rows[i].bill_number : i \in 1 .. Len(rows) } :
              \A i \in 1 .. Len(rows) : rows[i].bill_number <= n) + 1

\* both customers are registered and have bought nothing yet
InitCheckout ==
    /\ now \in [year : {BaseYear}, month : {3, 12}]
    /\ customers = [email \in Shoppers |-> 0]
    /\ customer_email \in Shoppers
    /\ selected_mods = <<>>
    /\ selected_color = NoColor
    /\ totals = NoCall
    /\ car = {}
    /\ mod_data = NoMod
    /\ risk = NoCall
    /\ interp = NoCall
    /\ reco = NoCall
    /\ features = NoCall
    /\ accounts = [email \in Shoppers |-> [total_spent |-> 0, loyalty_points |-> 0]]
    /\ bills = <<>>
    /\ checkouts = NoCheckouts
    /\ session = NoSession

\* the logged-in customer checks a cart out (the web build may hold a colour,
\* the console passes None); the next customer logs in.
\* UPDATE customers SET total_visits = total_visits + 1, total_spent =
\* total_spent + ?, loyalty_points = loyalty_points + ? WHERE email = ?
Checkout ==
    \E mods \in CheckoutCarts, color \in Colors, next_email \in Shoppers :
        LET result == calculate_totals(mods, color, customer_email, customers, now.month)
        IN  /\ Len(bills) < MaxBills
            /\ bills' = Append(bills,
                               BillRow(NextBillNumber(bills), customer_email, result,
                                       LoyaltyDiscount(customers, customer_email)))
            /\ customers' = [customers EXCEPT ![customer_email] = @ + 1]
            /\ accounts' = [accounts EXCEPT ![customer_email] =
                              [ total_spent    |-> @.total_spent + result.total,
                                loyalty_points |-> @.loyalty_points
                                                     + points_to_earn(result.total) ]]
            /\ customer_email' = next_email
            /\ UNCHANGED <<now, selected_mods, selected_color, totals, car, mod_data,
                           risk, interp, reco, features,
                       checkouts, session>>

NextCheckout == Checkout

SpecCheckout == InitCheckout /\ [][NextCheckout]_vars

\* the bills of a customer, in order
BillsOf(email) == SelectSeq(bills, LAMBDA b : b.customer_email = email)

RECURSIVE SumTotals(_)
SumTotals(rows) == IF rows = <<>> THEN 0 ELSE Head(rows).total + SumTotals(Tail(rows))

\* the sum of floor(total / 100) over bills
RECURSIVE SumFloorPoints(_)
SumFloorPoints(rows) ==
    IF rows = <<>> THEN 0
    ELSE (Head(rows).total \div (100 * Unit)) + SumFloorPoints(Tail(rows))

\* the sum over bills of total / 100 with the fraction dropped
RECURSIVE SumTruncatedPoints(_)
SumTruncatedPoints(rows) ==
    IF rows = <<>> THEN 0
    ELSE LET total == Head(rows).total
             whole == IF total >= 0 THEN total \div (100 * Unit)
                      ELSE 0 - ((0 - total) \div (100 * Unit))
         IN  whole + SumTruncatedPoints(Tail(rows))

C19_ReturningCustomerGetsLoyalty ==
    \A i \in 1 .. Len(bills) :
        (\E j \in 1 .. i - 1 : bills[j].customer_email = bills[i].customer_email)
            => bills[i].loyalty_discount >= 5

----------------------------------------------------------------------------
(* The year-dependent sub-scores of a risk computation *)

\* a risk computation on a Performance modification has returned
PerformanceScored ==
    /\ risk.called
    /\ risk.outcome.raised = ""
    /\ mod_data.category = "Performance"

\* C21: for a Performance modification the warranty sub-score is 4.5 when the
\* car's age (current year minus car year, 0 when the year is missing) is
\* below 3, and 3.0 otherwise.
C21_WarrantyByAge ==
    PerformanceScored =>
        _calculate_warranty_risk(mod_data.category, RiskCallYear)
            = IF now.year - RiskCallYear < 3 THEN 45 ELSE 30

\* C22: for a Performance modification the legal sub-score compares the raw
\* year with 10, so for every car year the application accepts (1900 up to
\* next year) and for a missing year the computation yields 4.0.
C22_LegalIs4 ==
    (risk.called /\ mod_data.category = "Performance") =>
        /\ risk.outcome.raised = ""
        /\ _calculate_legal_risk(mod_data.category, RiskCallYear) = 40

----------------------------------------------------------------------------
(* The scoring rule of the recommendations *)

\* a score cut to [0, 100]
Clamp100(score) == IF score < 0 THEN 0 ELSE IF score > 100 THEN 100 ELSE score

\* the purchase frequency of a category in the profile, 0 if never bought
FrequencyOf(category) ==
    IF \E p \in reco.user_prefs : p.mod_category = category
    THEN (CHOOSE p \in reco.user_prefs : p.mod_category = category).frequency
    ELSE 0

\* the mean of the profile's average spends is num / den; den = 0 for the
\* empty profile
MeanSpendNum == SumAvgSpent(reco.user_prefs)
MeanSpendDen == Cardinality(reco.user_prefs)

\* priceFit as C23 words it: ratio = price / (avgSpend * 1.5) = 2 * den *
\* price / (3 * num); +20 for 0.5 <= ratio <= 1.5, +10 below, -10 above;
\* nothing without an average to divide by
PriceFit(mod) ==
    LET x == 2 * MeanSpendDen * mod.price
        y == 3 * MeanSpendNum
    IN  IF MeanSpendDen = 0 \/ MeanSpendNum = 0 THEN 0
        ELSE IF y > 0
             THEN IF 2 * x >= y /\ 2 * x <= 3 * y THEN 20
                  ELSE IF 2 * x < y THEN 10 ELSE 0 - 10
             ELSE IF 2 * x <= y /\ 2 * x >= 3 * y THEN 20
                  ELSE IF 2 * x > y THEN 10 ELSE 0 - 10

\* priceFit applied only for a positive average spend
PriceFitPositive(mod) == IF MeanSpendNum > 0 THEN PriceFit(mod) ELSE 0

\* the customer's car has no year / the customer has no car record
CarYearMissing == \E row \in car : row.car_year = {}
NoCarRecord == car = {}

\* the age of the customer's car, 0 when its year is missing
CarAge ==
    LET row == CHOOSE r \in car : TRUE
    IN  IF row.car_year = {} THEN 0 ELSE now.year - (CHOOSE y \in row.car_year : TRUE)

\* carFit: +10 for a Performance candidate with car age < 5 or a Safety
\* candidate with car age > 5, else 0 (also without a car)
CarFit(mod) ==
    IF NoCarRecord THEN 0
    ELSE IF mod.category = "Performance" /\ CarAge < 5 THEN 10
    ELSE IF mod.category = "Safety" /\ CarAge > 5 THEN 10
    ELSE 0

\* both front-ends score every catalogue row as F says: the web scorer
\* returns F, and a request that returns a list has filtered on F >= 60 and
\* lists F as ai_score
ScoredAs(F(_)) ==
    \A i \in 1 .. Len(reco.all_mods) :
        LET mod == reco.all_mods[i]
        IN  /\ calculate_modification_score(mod, reco.user_prefs, car, now.year) = F(mod)
            /\ RecoReturned =>
                 /\ F(mod) >= 60 <=> InCandidates(mod)
                 /\ \A k \in 1 .. Len(reco.outcome.candidates) :
                      reco.outcome.candidates[k].mod_id = mod.mod_id
                          => reco.outcome.candidates[k].ai_score = F(mod)

C23_Score(mod) ==
    Clamp100(50 + 5 * FrequencyOf(mod.category) + PriceFit(mod) + CarFit(mod))

C23_ScorePositive(mod) ==
    Clamp100(50 + 5 * FrequencyOf(mod.category) + PriceFitPositive(mod) + CarFit(mod))

NoSpendToDivideBy == reco.user_prefs = {} \/ MeanSpendNum = 0

C24_Score(mod) == Clamp100(50 + 5 * FrequencyOf(mod.category) + CarFit(mod))

\* C24: scoring never divides by zero: with an empty profile, or a mean
\* average spend of 0, the price-fit adjustment contributes 0 and a score is
\* still returned.
C24_NoDivisionByZero ==
    (reco.called /\ NoSpendToDivideBy) =>
        /\ reco.outcome.raised # "ZeroDivisionError"
        /\ \A i \in 1 .. Len(reco.all_mods) :
             price_suitability(reco.all_mods[i], reco.user_prefs) = Value(0)
        /\ ScoredAs(C24_Score)

\* a request returned a list for a profile whose two average spends, -1000
\* and 1000, have the mean 0
C24_Witness ==
    /\ RecoReturned
    /\ Cardinality(reco.user_prefs) = 2
    /\ MeanSpendNum = 0
    /\ \E p \in reco.user_prefs : p.avg_spent # 0
    /\ reco.outcome.candidates # <<>>

\* the score when the car's age is 0
C25_ScoreAgeZero(mod) ==
    Clamp100(50 + 5 * FrequencyOf(mod.category) + PriceFitPositive(mod)
             + IF mod.category = "Performance" THEN 10 ELSE 0)

\* the score without a car rule
C25_ScoreNoCarFit(mod) ==
    Clamp100(50 + 5 * FrequencyOf(mod.category) + PriceFitPositive(mod))

\* C25: when the car year is missing the car age is 0, so a Performance
\* candidate receives the +10 car bonus and a Safety candidate does not; the
\* same when the customer has no car record at all.
C25_MissingYearAgeZero ==
    (reco.called /\ (CarYearMissing \/ NoCarRecord)) => ScoredAs(C25_ScoreAgeZero)

\* C25 as amended: the bonus goes to Performance candidates when the car's
\* year is missing; without a car record no candidate gets a car bonus.
C25_MissingYearAgeZeroWithCar ==
    reco.called =>
        /\ CarYearMissing => ScoredAs(C25_ScoreAgeZero)
        /\ NoCarRecord => ScoredAs(C25_ScoreNoCarFit)

\* for a customer without purchases whose car has no year, the console lists
\* a Performance row with 50 + 10 and leaves a Safety row out
C25_Witness ==
    /\ RecoReturned
    /\ reco.fe = "console"
    /\ CarYearMissing
    /\ reco.user_prefs = {}
    /\ \E i \in 1 .. Len(reco.all_mods) :
         reco.all_mods[i].category = "Safety" /\ ~InCandidates(reco.all_mods[i])
    /\ \E k \in 1 .. Len(reco.outcome.candidates) :
         /\ reco.outcome.candidates[k].category = "Performance"
         /\ reco.outcome.candidates[k].ai_score = 60

----------------------------------------------------------------------------
(* Checkouts of several processes on one database.  Every process has its  *)
(* own connection: SELECT MAX(bill_number) runs outside a transaction, the *)
(* INSERT opens one (one writer at a time), conn.commit() ends it.         *)

\* processes that check out (console and web front-ends on one database)
MaxSessions == 2

Processes == 1 .. MaxSessions

\* a process that is not checking out
Idle == [pc |-> "idle"]

\* the cart every process checks out
BilledCart == <<Mod(1)>>

InitBilling ==
    /\ now \in [year : {BaseYear}, month : {3}]
    /\ customers = [email \in Shoppers |-> 0]
    /\ customer_email = NoEmail
    /\ selected_mods = <<>>
    /\ selected_color = NoColor
    /\ totals = NoCall
    /\ car = {}
    /\ mod_data = NoMod
    /\ risk = NoCall
    /\ interp = NoCall
    /\ reco = NoCall
    /\ features = NoCall
    /\ accounts = [email \in Shoppers |-> [total_spent |-> 0, loyalty_points |-> 0]]
    /\ bills = <<>>
    /\ checkouts = [p \in Processes |-> Idle]
    /\ session = NoSession

\* the number of checkouts begun and not yet committed
Pending == Cardinality({ p \in Processes : checkouts[p].pc # "idle" })

\* a customer confirms a purchase: the totals are those of the summary, and
\* cursor.execute("SELECT MAX(bill_number) FROM bills") reads the committed rows
ReadMaxBillNumber ==
    \E p \in Processes, email \in Shoppers :
        /\ checkouts[p].pc = "idle"
        /\ Len(bills) + Pending < MaxBills
        /\ checkouts' = [checkouts EXCEPT ![p] =
                           [ pc          |-> "read",
                             email       |-> email,
                             totals      |-> calculate_totals(BilledCart, NoColor, email,
                                                              customers, now.month),
                             loyalty     |-> LoyaltyDiscount(customers, email),
                             bill_number |-> NextBillNumber(bills) ]]
        /\ UNCHANGED <<now, customers, customer_email, selected_mods, selected_color,
                       totals, car, mod_data, risk, interp, reco, features, accounts,
                       bills, session>>

\* INSERT INTO bills: the process becomes the writer; another process that
\* inserts waits until the writer has committed
InsertBill ==
    \E p \in Processes :
        /\ checkouts[p].pc = "read"
        /\ \A q \in Processes : checkouts[q].pc # "inserted"
        /\ checkouts' = [checkouts EXCEPT ![p].pc = "inserted"]
        /\ UNCHANGED <<now, customers, customer_email, selected_mods, selected_color,
                       totals, car, mod_data, risk, interp, reco, features, accounts,
                       bills, session>>

\* UPDATE customers ...; conn.commit(): the bill and the counters are saved
CommitBill ==
    \E p \in Processes :
        LET c == checkouts[p]
        IN  /\ c.pc = "inserted"
            /\ bills' = Append(bills, BillRow(c.bill_number, c.email, c.totals, c.loyalty))
            /\ customers' = [customers EXCEPT ![c.email] = @ + 1]
            /\ accounts' = [accounts EXCEPT ![c.email] =
                              [ total_spent    |-> @.total_spent + c.totals.total,
                                loyalty_points |-> @.loyalty_points
                                                     + points_to_earn(c.totals.total) ]]
            /\ checkouts' = [checkouts EXCEPT ![p] = Idle]
            /\ UNCHANGED <<now, customer_email, selected_mods, selected_color, totals,
                           car, mod_data, risk, interp, reco, features, session>>

NextBilling == ReadMaxBillNumber \/ InsertBill \/ CommitBill

SpecBilling == InitBilling /\ [][NextBilling]_vars

\* C26: bill numbers are unique: no two rows of bills share a bill_number,
\* and every bill has 1 + the largest bill_number saved before it, after any
\* interleaving of checkouts that each read MAX(bill_number) and then insert.
C26_BillNumbersUnique ==
    \A i, j \in 1 .. Len(bills) :
        i < j => /\ bills[i].bill_number # bills[j].bill_number
                 /\ bills[j].bill_number > bills[i].bill_number

----------------------------------------------------------------------------
(* A session of the web front-end: st.session_state, the buttons of the    *)
(* header, the sidebar and the pages, and what main() renders after each   *)
(* click (every handler ends in st.rerun(), which runs main() again).      *)

\* rows of table modifications that the session's pages list
MaxWebMods == 2

\* the keys of page_functions
Pages ==
    { "home", "auth", "build", "pricing", "profile", "appointments", "reports",
      "export", "preview", "ai_recommend", "risk_analysis", "customer_class",
      "settings" }

\* the targets of the top navigation bar (the cart button aside)
HeaderPages == { "home", "build", "ai_recommend", "risk_analysis" }

\* menu_items of the sidebar and its quick actions
SidebarPages(user_email) ==
    IF user_email # NoEmail
    THEN { "home", "build", "pricing", "reports", "appointments", "profile",
           "customer_class", "export", "settings", "preview" }
    ELSE { "home", "pricing", "auth" }

\* the active rows of table modifications, by mod_id
WebCatalog ==
    [ i \in 1 .. MaxWebMods |-> CHOOSE m \in RecoMods : m.mod_id = i ]

\* the purchase history of the customer: none, or Performance bought twice
WebPrefSets ==
    { {}, { [mod_category |-> "Performance", frequency |-> 2, avg_spent |-> 1000] } }

\* the customer's row of table cars: none, or one car
WebCars == { {}, { [car_year |-> {BaseYear - 4}, car_make |-> ""] } }

\* the keys of a cart entry: dict(mod) of a row of the build page's query,
\* and mod_info of the AI recommendations page
RowKeys  == { "mod_id", "name", "price", "category", "description" }
InfoKeys == { "mod_id", "name", "price", "category" }

\* categories[category].append(dict(mod)): the whole row
RowDict(mod) ==
    [mod_id |-> mod.mod_id, price |-> mod.price, category |-> mod.category,
     keys |-> RowKeys]

\* mod_info = {'mod_id': ..., 'name': ..., 'price': ..., 'category': ...}
ModInfo(rec) ==
    [mod_id |-> rec.mod_id, price |-> rec.price, category |-> rec.category,
     keys |-> InfoKeys]

\* x in list: equality of dicts (same keys, same values)
InList(x, list) == \E i \in 1 .. Len(list) : list[i] = x

\* [m for m in list if m['mod_id'] != mod_id]
RECURSIVE WithoutModId(_, _)
WithoutModId(list, mod_id) ==
    IF list = <<>> THEN <<>>
    ELSE IF Head(list).mod_id = mod_id
         THEN WithoutModId(Tail(list), mod_id)
         ELSE <<Head(list)>> \o WithoutModId(Tail(list), mod_id)

\* list.remove(x): the first entry equal to x goes
RECURSIVE RemoveFirst(_, _)
RemoveFirst(list, x) ==
    IF list = <<>> THEN <<>>
    ELSE IF Head(list) = x
         THEN Tail(list)
         ELSE <<Head(list)>> \o RemoveFirst(Tail(list), x)

\* main(): the cart view first, then the page of current_page
Shown(view_cart, current_page) ==
    IF view_cart THEN "cart"
    ELSE IF current_page \in Pages THEN current_page ELSE "home"

\* st.rerun(): main() runs on the session state the handler left
Rerun(state) == [state EXCEPT !.shown = Shown(state.view_cart, state.current_page)]

\* recommendations of ai_recommendations_page
PageRecommendations ==
    web_get_personalized_recommendations(reco.user_prefs, car, reco.all_mods,
                                         reco.limit, now.year)

\* init_session_state, and the first run of main()
InitWeb ==
    /\ now \in [year : {BaseYear}, month : {3}]
    /\ customers \in [Registered -> {0}]
    /\ customer_email = NoEmail
    /\ selected_mods = <<>>
    /\ selected_color = NoColor
    /\ totals = NoCall
    /\ car \in WebCars
    /\ mod_data = NoMod
    /\ risk = NoCall
    /\ interp = NoCall
    /\ reco \in [called : {FALSE}, fe : {"web"}, limit : {6},
                 user_prefs : WebPrefSets, all_mods : {WebCatalog}]
    /\ features = NoCall
    /\ accounts = NoAccounts
    /\ bills = <<>>
    /\ checkouts = NoCheckouts
    /\ session = [ open         |-> TRUE,
                   user_email   |-> NoEmail,
                   current_page |-> "home",
                   view_cart    |-> FALSE,
                   shown        |-> Shown(FALSE, "home") ]

\* a button of the top navigation bar or of the sidebar that leads to page
Navigate(page) ==
    /\ session.open
    /\ page \in HeaderPages \cup SidebarPages(session.user_email)
    /\ session' = Rerun([session EXCEPT !.current_page = page])
    /\ UNCHANGED <<now, customers, customer_email, selected_mods, selected_color,
                   totals, car, mod_data, risk, interp, reco, features, accounts,
                   bills, checkouts>>

\* show_header, show_sidebar: one of the navigation buttons is clicked
NavigationClick == \E page \in Pages : Navigate(page)

\* show_header: the cart button
ViewCart ==
    /\ session.open
    /\ session' = Rerun([session EXCEPT !.view_cart = TRUE])
    /\ UNCHANGED <<now, customers, customer_email, selected_mods, selected_color,
                   totals, car, mod_data, risk, interp, reco, features, accounts,
                   bills, checkouts>>

\* show_cart_page: "Go to Build Page" of the empty cart; "Continue Building"
\* and "Check Risk Analysis" of a cart with items
LeaveCart ==
    \E page \in { "build", "risk_analysis" } :
        /\ session.open
        /\ session.shown = "cart"
        /\ selected_mods = <<>> /\ selected_color = NoColor => page = "build"
        /\ session' = Rerun([session EXCEPT !.view_cart = FALSE,
                                            !.current_page = page])
        /\ UNCHANGED <<now, customers, customer_email, selected_mods, selected_color,
                       totals, car, mod_data, risk, interp, reco, features, accounts,
                       bills, checkouts>>

\* show_cart_page: "Proceed to Checkout" of a cart with items
ProceedToCheckout ==
    /\ session.open
    /\ session.shown = "cart"
    /\ selected_mods # <<>> \/ selected_color # NoColor
    /\ session' = IF session.user_email # NoEmail
                  THEN Rerun([session EXCEPT !.view_cart = FALSE,
                                             !.current_page = "build"])
                  ELSE Rerun([session EXCEPT !.current_page = "auth"])
    /\ UNCHANGED <<now, customers, customer_email, selected_mods, selected_color,
                   totals, car, mod_data, risk, interp, reco, features, accounts,
                   bills, checkouts>>

\* build_page without a login: "Go to Login"
GoToLogin ==
    /\ session.open
    /\ session.shown = "build"
    /\ session.user_email = NoEmail
    /\ session' = Rerun([session EXCEPT !.current_page = "auth"])
    /\ UNCHANGED <<now, customers, customer_email, selected_mods, selected_color,
                   totals, car, mod_data, risk, interp, reco, features, accounts,
                   bills, checkouts>>

\* auth_page: the login form is submitted with the email of a customer
Login ==
    \E email \in Registered :
        /\ session.open
        /\ session.shown = "auth"
        /\ session' = Rerun([session EXCEPT !.user_email = email])
        /\ UNCHANGED <<now, customers, customer_email, selected_mods, selected_color,
                       totals, car, mod_data, risk, interp, reco, features, accounts,
                       bills, checkouts>>

\* show_sidebar: "Logout" empties the selections
Logout ==
    /\ session.open
    /\ session.user_email # NoEmail
    /\ session' = Rerun([session EXCEPT !.user_email = NoEmail])
    /\ selected_mods' = <<>>
    /\ selected_color' = NoColor
    /\ UNCHANGED <<now, customers, customer_email, totals, car, mod_data, risk,
                   interp, reco, features, accounts, bills, checkouts>>

\* build_page: "Select" of a modification that is not selected
\* (is_selected = any(m['mod_id'] == mod['mod_id'] for m in selected_mods))
BuildSelect ==
    \E i \in 1 .. Len(reco.all_mods) :
        LET mod == reco.all_mods[i]
        IN  /\ session.open
            /\ session.shown = "build"
            /\ session.user_email # NoEmail
            /\ \A k \in 1 .. Len(selected_mods) : selected_mods[k].mod_id # mod.mod_id
            /\ selected_mods' = Append(selected_mods, RowDict(mod))
            /\ session' = Rerun(session)
            /\ UNCHANGED <<now, customers, customer_email, selected_color, totals,
                           car, mod_data, risk, interp, reco, features, accounts,
                           bills, checkouts>>

\* build_page: "Remove" of a selected modification
BuildRemove ==
    \E i \in 1 .. Len(reco.all_mods) :
        LET mod == reco.all_mods[i]
        IN  /\ session.open
            /\ session.shown = "build"
            /\ session.user_email # NoEmail
            /\ \E k \in 1 .. Len(selected_mods) : selected_mods[k].mod_id = mod.mod_id
            /\ selected_mods' = WithoutModId(selected_mods, mod.mod_id)
            /\ session' = Rerun(session)
            /\ UNCHANGED <<now, customers, customer_email, selected_color, totals,
                           car, mod_data, risk, interp, reco, features, accounts,
                           bills, checkouts>>

\* ai_recommendations_page: "Add to Cart" of a recommendation
AddToCart ==
    /\ session.open
    /\ session.shown = "ai_recommend"
    /\ session.user_email # NoEmail
    /\ PageRecommendations.raised = ""
    /\ \E k \in 1 .. Len(PageRecommendations.list) :
         LET mod_info == ModInfo(PageRecommendations.list[k])
         IN  /\ ~InList(mod_info, selected_mods)
             /\ selected_mods' = Append(selected_mods, mod_info)
    /\ session' = Rerun(session)
    /\ UNCHANGED <<now, customers, customer_email, selected_color, totals,
                   car, mod_data, risk, interp, reco, features, accounts,
                   bills, checkouts>>

\* ai_recommendations_page without recommendations: "Add" of one of the
\* popular modifications (the six dearest active rows)
PopularAdd ==
    /\ session.open
    /\ session.shown = "ai_recommend"
    /\ session.user_email # NoEmail
    /\ PageRecommendations.raised = ""
    /\ PageRecommendations.list = <<>>
    /\ \E i \in 1 .. Len(reco.all_mods) :
         LET mod_info == ModInfo(reco.all_mods[i])
         IN  /\ ~InList(mod_info, selected_mods)
             /\ selected_mods' = Append(selected_mods, mod_info)
    /\ session' = Rerun(session)
    /\ UNCHANGED <<now, customers, customer_email, selected_color, totals,
                   car, mod_data, risk, interp, reco, features, accounts,
                   bills, checkouts>>

\* show_cart_page: the remove button of an entry, selected_mods.remove(mod)
CartRemove ==
    \E k \in 1 .. Len(selected_mods) :
        /\ session.open
        /\ session.shown = "cart"
        /\ selected_mods' = RemoveFirst(selected_mods, selected_mods[k])
        /\ session' = Rerun(session)
        /\ UNCHANGED <<now, customers, customer_email, selected_color, totals,
                       car, mod_data, risk, interp, reco, features, accounts,
                       bills, checkouts>>

NextWeb ==
    \/ NavigationClick
    \/ ViewCart
    \/ LeaveCart
    \/ ProceedToCheckout
    \/ GoToLogin
    \/ Login
    \/ Logout
    \/ BuildSelect
    \/ BuildRemove
    \/ AddToCart
    \/ PopularAdd
    \/ CartRemove

SpecWeb == InitWeb /\ [][NextWeb]_vars

\* C27: the web cart never holds two entries of one mod_id, after any
\* sequence of Select and Remove on the build page, "Add to Cart" and "Add"
\* on the AI recommendations page, removals on the cart page and logouts.
C27_NoDuplicateModId ==
    session.open =>
        \A i, j \in 1 .. Len(selected_mods) :
            i # j => selected_mods[i].mod_id # selected_mods[j].mod_id

\* C30: a click on a navigation button of the header or the sidebar for a
\* page is followed by a render that shows that page, the cart view open or
\* not at the time of the click.
C30_NavigationShowsPage ==
    [][\A page \in Pages : Navigate(page) => session'.shown = page]_vars

----------------------------------------------------------------------------
(* A build that grows: after every selection the page prices the build     *)
(* again with calculate_totals.                                            *)

\* rows of sample_mods: Sports Suspension and Dash Cam
SeedMods ==
    { [mod_id |-> 3,  price |-> 30000, category |-> "Performance"],
      [mod_id |-> 18, price |-> 5000,  category |-> "Technology"] }

\* the summary of the build as it stands
Priced(mods) ==
    [ called |-> TRUE,
      result |-> calculate_totals(mods, NoColor, customer_email, customers, now.month) ]

InitGrow ==
    /\ now \in [year : {BaseYear}, month : Months]
    /\ customers \in [Registered -> VisitCounts]
    /\ customer_email \in Emails
    /\ selected_mods = <<>>
    /\ selected_color = NoColor
    /\ totals = Priced(<<>>)
    /\ car = {}
    /\ mod_data = NoMod
    /\ risk = NoCall
    /\ interp = NoCall
    /\ reco = NoCall
    /\ features = NoCall
    /\ accounts = NoAccounts
    /\ bills = <<>>
    /\ checkouts = NoCheckouts
    /\ session = NoSession

\* one more modification is selected and the build is priced again
AddAndPrice ==
    \E mod \in SeedMods :
        /\ Len(selected_mods) < MaxMods
        /\ selected_mods' = Append(selected_mods, mod)
        /\ totals' = Priced(selected_mods')
        /\ UNCHANGED <<now, customers, customer_email, selected_color, car, mod_data,
                       risk, interp, reco, features, accounts, bills, checkouts,
                       session>>

\* the build is given up; the next one starts empty
StartNewBuild ==
    /\ selected_mods # <<>>
    /\ selected_mods' = <<>>
    /\ totals' = Priced(<<>>)
    /\ UNCHANGED <<now, customers, customer_email, selected_color, car, mod_data,
                   risk, interp, reco, features, accounts, bills, checkouts,
                   session>>

NextGrow == AddAndPrice \/ StartNewBuild

SpecGrow == InitGrow /\ [][NextGrow]_vars

\* the step adds one modification to a cart of non-negative prices
AddsOne ==
    /\ Len(selected_mods') = Len(selected_mods) + 1
    /\ SubSeq(selected_mods', 1, Len(selected_mods)) = selected_mods
    /\ \A i \in 1 .. Len(selected_mods') : selected_mods'[i].price >= 0

\* C28: for a fixed customer and month, one more modification of
\* non-negative price in a cart of non-negative prices never decreases the
\* total that calculate_totals returns.
C28_TotalNeverDecreases ==
    [][AddsOne => totals'.result.total >= totals.result.total]_vars

\* C28 (amended): the total does not decrease when the added modification
\* leaves the discount percentage as it was (the cart does not reach its
\* third or fifth modification).
C28_TotalNeverDecreasesAtEqualDiscount ==
    [][AddsOne /\ totals'.result.discount_percent = totals.result.discount_percent
         => totals'.result.total >= totals.result.total]_vars

\* a cart got its second modification, the Dash Cam after the Sports
\* Suspension, at no discount: 35000 plus 18 % GST
C28_Witness ==
    /\ Len(selected_mods) = 2
    /\ selected_mods[1].price = 30000
    /\ selected_mods[2].price = 5000
    /\ totals.called
    /\ totals.result.discount_percent = 0
    /\ totals.result.total = 41300 * Unit

----------------------------------------------------------------------------
(* The level of a computed risk score *)

\* the level the front-end of the computation gives the score
RiskLevel ==
    IF risk.fe = "console"
    THEN console_get_risk_interpretation(risk.outcome.score).level
    ELSE web_get_risk_interpretation(risk.outcome.score).level

\* 13 * 100 times the value before the clamp
RiskUnclamped ==
    LET t == C20_SubScores
    IN  2 * (30 * t.w + 25 * t.i + 20 * t.c + 15 * t.m + 10 * t.r + 30 * t.l)

\* the score is High Risk exactly for Performance, and the clamp cut nothing
RiskLevelByCategory ==
    /\ RiskLevel = "High Risk" <=> mod_data.category = "Performance"
    /\ RiskLevel \in { "Low Risk", "Medium Risk", "High Risk" }
    /\ RiskUnclamped >= 1300
    /\ RiskUnclamped <= 13000

\* C29: for every price, every car year from 1900 on or missing, and every
\* car make, calculate_modification_risk yields a score, and the score is
\* High Risk (above 6) if and only if the category is Performance; every
\* other category, the unmapped ones too, is Low or Medium, and the clamp to
\* [1, 10] never changes the computed value.
C29_HighRiskIffPerformance ==
    risk.called => /\ risk.outcome.raised = ""
                   /\ RiskLevelByCategory

====
